---- MODULE Spec2Model ----
(***************************************************************************)
(* Per-connection concurrency engine of src/client.go (lines 1-250, the    *)
(* first of the two revisions the file holds): the Read Worker (readLoop), *)
(* the Write Worker (writeLoop), the ping handler installed by makeClient, *)
(* and concurrent Call invocations sharing pendingCalls, pendingCnt and    *)
(* the channels messageOut, pingCh and closeCh.                            *)
(* Spec and FairSpec are the first revision; SpecRev2 is the second        *)
(* revision (lines 252-497), which differs in readLoop's loop body and in  *)
(* writeLoop's messageOut case.                                            *)
(*                                                                         *)
(* messageOut and pingCh are unbuffered: a send is a rendezvous with the   *)
(* Write Worker's select, so each is one joint step of sender and receiver.*)
(* messageOut is never closed, so the `!ok` branch of writeLoop is dead.   *)
(* closeCh has capacity 1 and every response channel has capacity 1; a     *)
(* send on a full channel blocks (its action is disabled).                 *)
(* The ping handler runs inside ReadMessage, on readLoop's goroutine.      *)
(* Calls of the transport (ReadMessage, NextWriter, Write, Close,          *)
(* WriteMessage) return an error or not; the code only sees err != nil, so *)
(* both outcomes are possible, except that nothing succeeds once the       *)
(* underlying net connection has been closed by the code itself.           *)
(***************************************************************************)
EXTENDS Integers, Sequences, FiniteSets, TLC

\* ---- bounds of the model
MaxCalls == 2            \* Call invocations, each in a goroutine of its own

\* ---- program values
maxPendingCalls == 1     \* Client.maxPendingCalls
CloseChCap == 1          \* make(chan bool, 1)
RespChCap == 1           \* make(chan *protocol.Message, 1)

Req == "request"
Resp == "response"

\* The Call invocations. Invocation c draws the id c: uuid.NewString() gives every invocation an
\* id no other invocation has.
Calls == 1..MaxCalls

\* protocol.Message {Id, Type, Action}; the payload is opaque to this layer.
Message(id, type, action) == [id |-> id, type |-> type, action |-> action]
NoMsg == Message(0, "", "")

\* A frame's bytes: well-formed JSON of a message, JSON null, or garbage.
NoFrame == [kind |-> "none", id |-> 0, type |-> "", action |-> ""]
BadFrame == [kind |-> "bad", id |-> 0, type |-> "", action |-> ""]
NullFrame == [kind |-> "null", id |-> 0, type |-> "", action |-> ""]

\* Message.ToBytes: the JSON encoding of a message.
ToBytes(m) == [kind |-> "json", id |-> m.id, type |-> m.type, action |-> m.action]

\* protocol.ToMessage: (message, err); message is nil for a no-op frame.
ToMessage(f) ==
    IF f.kind = "bad" THEN [err |-> TRUE, nil |-> TRUE, m |-> NoMsg]
    ELSE IF f.kind = "null" THEN [err |-> FALSE, nil |-> TRUE, m |-> NoMsg]
    ELSE [err |-> FALSE, nil |-> FALSE, m |-> Message(f.id, f.type, f.action)]

\* message.Type == protocol.Resp, for a frame that decodes to a message.
IsResp(f) == f.kind = "json" /\ f.type = Resp

\* Actions with a registered handler (Client.handler / getHandler).
Handlers == {"A", "B"}
getHandler(action) == action \in Handlers

\* What the peer may put on the wire: responses for any id (issued, timed
\* out or never issued), requests for known and unknown actions, no-op and
\* malformed frames.
PeerFrames ==
    {ToBytes(Message(i, Resp, "r")) : i \in Calls}
    \cup {ToBytes(Message(101, Req, "A")), ToBytes(Message(102, Req, "B")),
          ToBytes(Message(103, Req, "X"))}
    \cup {BadFrame, NullFrame}

\* Call's results: (resp, err).
NoRet == [err |-> "unset", resp |-> NoMsg]
ErrRet(e) == [err |-> e, resp |-> NoMsg]
OkRet(m) == [err |-> "nil", resp |-> m]
ErrCapacity == "max pending calls exceeded"

\* What the last step did that an observer of the connection sees: a call of
\* the transport's write path (op, by), a data frame f returned by
\* ReadMessage, an error returned by ReadMessage, or the return of Call
\* invocation c with the value it returned. Every other step records NoEv.
NoEv == [by |-> "none", op |-> "none", c |-> 0, val |-> NoRet, f |-> NoFrame]
WriteEv(by, op) == [by |-> by, op |-> op, c |-> 0, val |-> NoRet, f |-> NoFrame]
ReadEv(f) == [by |-> "readLoop", op |-> "read", c |-> 0, val |-> NoRet, f |-> f]
ReadErrEv == [by |-> "readLoop", op |-> "readError", c |-> 0, val |-> NoRet, f |-> NoFrame]
ReturnEv(c, val) == [by |-> "Call", op |-> "return", c |-> c, val |-> val, f |-> NoFrame]
WriteOps == {"NextWriter", "Write", "Close", "Pong", "CloseFrame"}

VARIABLES
    pc,            \* pc[c]: position of invocation c inside Call
    outcome,       \* outcome[c]: the value Call is about to return
    pendingCalls,  \* sync.Map: id -> response channel
    pendingCnt,    \* atomic.Int32
    respCh,        \* respCh[i]: buffer of the channel made for call i
    timedOut,      \* ids whose Call has returned the timeout error
    rpc,           \* position of readLoop
    msg,           \* readLoop: frame read / bytes to enqueue
    rch,           \* readLoop: the channel loaded from pendingCalls
    closeCh,       \* buffer of closeCh
    wpc,           \* position of writeLoop
    wmsg,          \* writeLoop: bytes taken from messageOut
    removed,       \* number of s.Remove(c.id) calls
    closeHandled,  \* writeLoop has run its closeCh case
    netClosed,     \* conn.NetConn().Close() was called
    inProgress,    \* who holds an open message writer (NextWriter .. Close)
    owed,          \* ids of the responses readLoop built, in the order built,
                   \* that have not been passed to writer.Write yet
    ev             \* what the last step read, wrote or returned

vars == <<pc, outcome, pendingCalls, pendingCnt, respCh,
          timedOut, rpc, msg, rch, closeCh, wpc, wmsg, removed, closeHandled,
          netClosed, inProgress, owed, ev>>

callVars == <<pc, outcome, pendingCalls, pendingCnt, timedOut>>
readVars == <<rpc, msg, rch>>
writeVars == <<wpc, wmsg, closeHandled, netClosed, inProgress>>

Init ==
    /\ pc = [c \in Calls |-> "idle"]
    /\ outcome = [c \in Calls |-> NoRet]
    /\ pendingCalls = [i \in {} |-> 0]
    /\ pendingCnt = 0
    /\ respCh = [i \in Calls |-> <<>>]
    /\ timedOut = {}
    /\ rpc = "read"
    /\ msg = NoFrame
    /\ rch = 0
    /\ closeCh = <<>>
    /\ wpc = "select"
    /\ wmsg = NoFrame
    /\ removed = 0
    /\ closeHandled = FALSE
    /\ netClosed = FALSE
    /\ inProgress = {}
    /\ owed = <<>>
    /\ ev = NoEv

\* sync.Map operations
Store(m, k, v) == [i \in DOMAIN m \cup {k} |-> IF i = k THEN v ELSE m[i]]
Delete(m, k) == [i \in DOMAIN m \ {k} |-> m[i]]

\* A response channel is reachable from its Call until the Call returns and
\* from readLoop while it holds the loaded channel; an unreachable channel
\* is garbage and its buffer is dropped.
Collect(ch, i, reachable) == IF reachable THEN ch ELSE [ch EXCEPT ![i] = <<>>]

----------------------------------------------------------------------------
\* Client.Call

\* CallReject with the slot registered before the capacity check.
CallRejectAfterStore(c) ==
    /\ pc[c] = "idle"
    /\ pendingCnt >= maxPendingCalls
    /\ pendingCalls' = Store(pendingCalls, c, c)
    /\ pc' = [pc EXCEPT ![c] = "done"]
    /\ ev' = ReturnEv(c, ErrRet(ErrCapacity))
    /\ UNCHANGED <<outcome, pendingCnt, timedOut, respCh, readVars, closeCh,
                   writeVars, removed, owed>>

\* pendingCnt.Load() >= maxPendingCalls: return the capacity error.
CallReject(c) ==
    /\ pc[c] = "idle"
    /\ pendingCnt >= maxPendingCalls
    /\ pc' = [pc EXCEPT ![c] = "done"]
    /\ ev' = ReturnEv(c, ErrRet(ErrCapacity))
    /\ UNCHANGED <<outcome, pendingCalls, pendingCnt, timedOut, respCh, readVars,
                   closeCh, writeVars, removed, owed>>

\* The check passed but json.Marshal(data) failed: return before registering.
CallMarshalErr(c) ==
    /\ pc[c] = "idle"
    /\ pendingCnt < maxPendingCalls
    /\ pc' = [pc EXCEPT ![c] = "done"]
    /\ ev' = ReturnEv(c, ErrRet("marshal"))
    /\ UNCHANGED <<outcome, pendingCalls, pendingCnt, timedOut, respCh, readVars,
                   closeCh, writeVars, removed, owed>>

\* The check passed: build the request with a fresh uuid.
CallCheck(c) ==
    /\ pc[c] = "idle"
    /\ pendingCnt < maxPendingCalls
    /\ pc' = [pc EXCEPT ![c] = "store"]
    /\ UNCHANGED <<outcome, pendingCalls, pendingCnt, timedOut, respCh, readVars,
                   closeCh, writeVars, removed, owed>>
    /\ ev' = NoEv

\* CallStore with the registration left out: the slot is made but not
\* stored before the request is sent.
CallStoreNotRegistered(c) ==
    /\ pc[c] = "store"
    /\ respCh' = [respCh EXCEPT ![c] = <<>>]
    /\ pc' = [pc EXCEPT ![c] = "add"]
    /\ UNCHANGED <<outcome, pendingCalls, pendingCnt, timedOut, readVars,
                   closeCh, writeVars, removed, owed>>
    /\ ev' = NoEv

\* respCh := make(chan, 1); pendingCalls.Store(req.Id, respCh)
CallStore(c) ==
    /\ pc[c] = "store"
    /\ respCh' = [respCh EXCEPT ![c] = <<>>]
    /\ pendingCalls' = Store(pendingCalls, c, c)
    /\ pc' = [pc EXCEPT ![c] = "add"]
    /\ UNCHANGED <<outcome, pendingCnt, timedOut, readVars,
                   closeCh, writeVars, removed, owed>>
    /\ ev' = NoEv

\* CallAdd with the cleanup deferred only after req.ToBytes() succeeded.
CallAddDeferLate(c) ==
    /\ pc[c] = "add"
    /\ pendingCnt' = pendingCnt + 1
    /\ \/ /\ pc' = [pc EXCEPT ![c] = "send"]
          /\ ev' = NoEv
       \/ /\ pc' = [pc EXCEPT ![c] = "done"]
          /\ ev' = ReturnEv(c, ErrRet("encode"))
    /\ UNCHANGED <<outcome, pendingCalls, timedOut, respCh, readVars, closeCh,
                   writeVars, removed, owed>>

\* pendingCnt.Add(1); the cleanup is deferred; then req.ToBytes(), whose
\* failure returns through the deferred cleanup.
CallAdd(c) ==
    /\ pc[c] = "add"
    /\ pendingCnt' = pendingCnt + 1
    /\ \/ /\ pc' = [pc EXCEPT ![c] = "send"]
          /\ UNCHANGED outcome
       \/ /\ pc' = [pc EXCEPT ![c] = "cleanup"]
          /\ outcome' = [outcome EXCEPT ![c] = ErrRet("encode")]
    /\ UNCHANGED <<pendingCalls, timedOut, respCh, readVars,
                   closeCh, writeVars, removed, owed>>
    /\ ev' = NoEv

\* c.messageOut <- msgBytes, received by writeLoop's select.
CallSend(c) ==
    /\ pc[c] = "send"
    /\ wpc = "select"
    /\ wmsg' = ToBytes(Message(c, Req, "call"))
    /\ wpc' = "nextWriter"
    /\ pc' = [pc EXCEPT ![c] = "wait"]
    /\ UNCHANGED <<outcome, pendingCalls, pendingCnt, timedOut,
                   respCh, readVars, closeCh, closeHandled, netClosed, inProgress,
                   removed, owed>>
    /\ ev' = NoEv

\* case resp := <-respCh
CallRecv(c) ==
    /\ pc[c] = "wait"
    /\ respCh[c] # <<>>
    /\ outcome' = [outcome EXCEPT ![c] = OkRet(Head(respCh[c]))]
    /\ respCh' = [respCh EXCEPT ![c] = Tail(@)]
    /\ pc' = [pc EXCEPT ![c] = "cleanup"]
    /\ UNCHANGED <<pendingCalls, pendingCnt, timedOut, readVars,
                   closeCh, writeVars, removed, owed>>
    /\ ev' = NoEv

\* case <-time.After(c.timeout.ReadWait)
CallTimeout(c) ==
    /\ pc[c] = "wait"
    /\ outcome' = [outcome EXCEPT ![c] = ErrRet("timeout")]
    /\ pc' = [pc EXCEPT ![c] = "cleanup"]
    /\ UNCHANGED <<pendingCalls, pendingCnt, timedOut, respCh,
                   readVars, closeCh, writeVars, removed, owed>>
    /\ ev' = NoEv

\* CallCleanup that removes the entry only when a response was received.
CallCleanupUnlessTimeout(c) ==
    /\ pc[c] = "cleanup"
    /\ pendingCalls' = IF outcome[c].err = "timeout" THEN pendingCalls
                       ELSE Delete(pendingCalls, c)
    /\ pendingCnt' = pendingCnt - 1
    /\ ev' = ReturnEv(c, outcome[c])
    /\ timedOut' = IF outcome[c].err = "timeout" THEN timedOut \cup {c} ELSE timedOut
    /\ pc' = [pc EXCEPT ![c] = "done"]
    /\ outcome' = [outcome EXCEPT ![c] = NoRet]
    /\ respCh' = Collect(respCh, c, rpc = "deliver" /\ rch = c)
    /\ UNCHANGED <<readVars, closeCh, writeVars, removed, owed>>

\* The deferred function, run on every return after it was deferred:
\* c.pendingCalls.Delete(req.Id); c.pendingCnt.Add(-1); then Call returns
\* (resp, err).
CallCleanup(c) ==
    /\ pc[c] = "cleanup"
    /\ pendingCalls' = Delete(pendingCalls, c)
    /\ pendingCnt' = pendingCnt - 1
    /\ ev' = ReturnEv(c, outcome[c])
    /\ timedOut' = IF outcome[c].err = "timeout" THEN timedOut \cup {c} ELSE timedOut
    /\ pc' = [pc EXCEPT ![c] = "done"]
    /\ outcome' = [outcome EXCEPT ![c] = NoRet]
    /\ respCh' = Collect(respCh, c, rpc = "deliver" /\ rch = c)
    /\ UNCHANGED <<readVars, closeCh, writeVars, removed, owed>>

----------------------------------------------------------------------------
\* Client.readLoop

\* c.conn.ReadMessage() returns an error.
ReadError ==
    /\ rpc = "read"
    /\ rpc' = "raise"
    /\ UNCHANGED <<callVars, respCh, msg, rch, closeCh, writeVars, removed, owed>>
    /\ ev' = ReadErrEv

\* A ping control frame arrives: ReadMessage invokes the ping handler.
ReadPing ==
    /\ rpc = "read"
    /\ ~netClosed
    /\ rpc' = "ping"
    /\ UNCHANGED <<callVars, respCh, msg, rch, closeCh, writeVars, removed, owed>>
    /\ ev' = NoEv

\* PingHandler that writes the pong itself, from the reading goroutine.
PingHandlerDirect ==
    /\ rpc = "ping"
    /\ rpc' = "read"
    /\ ev' = WriteEv("readLoop", "Pong")
    /\ UNCHANGED <<callVars, respCh, msg, rch, closeCh, writeVars, removed, owed>>

\* The ping handler: cli.pingCh <- appData, received by writeLoop's select,
\* then SetWriteDeadline; ReadMessage goes on reading.
PingHandler ==
    /\ rpc = "ping"
    /\ wpc = "select"
    /\ wpc' = "pong"
    /\ rpc' = "read"
    /\ UNCHANGED <<callVars, respCh, msg, rch, closeCh, wmsg, closeHandled, netClosed,
                   inProgress, removed, owed>>
    /\ ev' = NoEv

\* Dispatch that hands a response to any registered slot, whatever its id.
DispatchAnySlot(f) ==
    LET r == ToMessage(f) IN
    IF ~r.err /\ ~r.nil /\ r.m.type = Resp /\ DOMAIN pendingCalls # {}
    THEN /\ \E k \in DOMAIN pendingCalls : rch' = pendingCalls[k]
         /\ msg' = f
         /\ rpc' = "deliver"
         /\ UNCHANGED owed
    ELSE /\ rpc' = "read"
         /\ UNCHANGED <<msg, rch, owed>>

\* The loop body for a frame f returned by ReadMessage, from
\* protocol.ToMessage(msg) to the next channel operation or the next read.
Dispatch(f) ==
    LET r == ToMessage(f) IN
    IF r.err THEN
        \* decode failure
        /\ rpc' = "raise"
        /\ UNCHANGED <<msg, rch, owed>>
    ELSE IF r.nil THEN
        \* nil message: continue
        /\ rpc' = "read"
        /\ UNCHANGED <<msg, rch, owed>>
    ELSE IF r.m.type = Resp THEN
        \* c.pendingCalls.Load(message.Id)
        IF r.m.id \in DOMAIN pendingCalls
        THEN /\ rch' = pendingCalls[r.m.id]
             /\ msg' = f
             /\ rpc' = "deliver"
             /\ UNCHANGED owed
        ELSE /\ rpc' = "read"
             /\ UNCHANGED <<msg, rch, owed>>
    ELSE IF ~getHandler(r.m.action) THEN
        \* empty handler: continue
        /\ rpc' = "read"
        /\ UNCHANGED <<msg, rch, owed>>
    ELSE
        \* h(c, message) returns nil, or resp.ToBytes() fails
        \/ /\ rpc' = "raise"
           /\ UNCHANGED <<msg, rch, owed>>
        \* the response reuses the request's id and action
        \/ /\ msg' = ToBytes(Message(r.m.id, Resp, r.m.action))
           /\ rpc' = "sendOut"
           /\ owed' = Append(owed, r.m.id)
           /\ UNCHANGED rch

\* c.conn.ReadMessage() returns a data frame, which the loop body handles.
ReadFrame ==
    /\ rpc = "read"
    /\ ~netClosed
    /\ \E f \in PeerFrames : Dispatch(f) /\ ev' = ReadEv(f)
    /\ UNCHANGED <<callVars, respCh, closeCh, writeVars, removed>>

\* callCh <- message; continue
Deliver ==
    /\ rpc = "deliver"
    /\ Len(respCh[rch]) < RespChCap
    /\ respCh' = Collect([respCh EXCEPT ![rch] = Append(@, ToMessage(msg).m)], rch,
                         pc[rch] # "done")
    /\ rpc' = "read"
    /\ msg' = NoFrame
    /\ rch' = 0
    /\ UNCHANGED <<callVars, closeCh, writeVars, removed, owed>>
    /\ ev' = NoEv

\* ReaderSend as a non-blocking send: when writeLoop is not at its select
\* the response is dropped and readLoop reads on.
ReaderSendOrDrop ==
    /\ rpc = "sendOut"
    /\ IF wpc = "select"
       THEN wmsg' = msg /\ wpc' = "nextWriter"
       ELSE UNCHANGED <<wmsg, wpc>>
    /\ rpc' = "read"
    /\ msg' = NoFrame
    /\ UNCHANGED <<callVars, respCh, rch, closeCh, closeHandled, netClosed,
                   inProgress, removed, owed>>
    /\ ev' = NoEv

\* c.messageOut <- msgOut, received by writeLoop's select.
ReaderSend ==
    /\ rpc = "sendOut"
    /\ wpc = "select"
    /\ wmsg' = msg
    /\ wpc' = "nextWriter"
    /\ rpc' = "read"
    /\ msg' = NoFrame
    /\ UNCHANGED <<callVars, respCh, rch, closeCh, closeHandled, netClosed,
                   inProgress, removed, owed>>
    /\ ev' = NoEv

\* c.closeCh <- true, then leave the loop; the deferred s.Remove(c.id) runs.
ReaderRaise ==
    /\ rpc = "raise"
    /\ Len(closeCh) < CloseChCap
    /\ closeCh' = Append(closeCh, TRUE)
    /\ removed' = removed + 1
    /\ rpc' = "done"
    /\ UNCHANGED <<callVars, respCh, msg, rch, writeVars, owed>>
    /\ ev' = NoEv

----------------------------------------------------------------------------
\* Client.writeLoop

\* writer, err := c.conn.NextWriter(websocket.TextMessage)
WriterNextWriter ==
    /\ wpc = "nextWriter"
    /\ \/ /\ ~netClosed
          /\ wpc' = "write"
          /\ inProgress' = inProgress \cup {"writeLoop"}
          /\ UNCHANGED wmsg
          /\ UNCHANGED owed
       \/ /\ wpc' = "raise"
          /\ wmsg' = NoFrame
          /\ owed' = IF IsResp(wmsg) THEN Tail(owed) ELSE owed
          /\ UNCHANGED inProgress
    /\ ev' = WriteEv("writeLoop", "NextWriter")
    /\ UNCHANGED <<callVars, respCh, readVars, closeCh, closeHandled, netClosed,
                   removed>>

\* _, err = writer.Write(msg)
WriterWrite ==
    /\ wpc = "write"
    /\ \/ /\ ~netClosed
          /\ wpc' = "close"
          /\ UNCHANGED inProgress
       \/ /\ wpc' = "raise"
          /\ inProgress' = inProgress \ {"writeLoop"}
    /\ wmsg' = NoFrame
    /\ owed' = IF IsResp(wmsg) THEN Tail(owed) ELSE owed
    /\ ev' = WriteEv("writeLoop", "Write")
    /\ UNCHANGED <<callVars, respCh, readVars, closeCh, closeHandled, netClosed,
                   removed>>

\* err = writer.Close(): the frame is flushed.
WriterClose ==
    /\ wpc = "close"
    /\ \/ /\ ~netClosed
          /\ wpc' = "select"
       \/ wpc' = "raise"
    /\ inProgress' = inProgress \ {"writeLoop"}
    /\ ev' = WriteEv("writeLoop", "Close")
    /\ UNCHANGED <<callVars, respCh, readVars, closeCh, wmsg, closeHandled, netClosed,
                   removed, owed>>

\* case <-c.pingCh: c.conn.WriteMessage(websocket.PongMessage, ...)
WriterPong ==
    /\ wpc = "pong"
    /\ \/ /\ ~netClosed
          /\ wpc' = "select"
       \/ wpc' = "raise"
    /\ ev' = WriteEv("writeLoop", "Pong")
    /\ UNCHANGED <<callVars, respCh, readVars, closeCh, wmsg, closeHandled, netClosed,
                   inProgress, removed, owed>>

\* case <-c.closeCh
WriterRecvClose ==
    /\ wpc = "select"
    /\ closeCh # <<>>
    /\ closeCh' = Tail(closeCh)
    /\ wpc' = "closeFrame"
    /\ UNCHANGED <<callVars, respCh, readVars, wmsg, closeHandled, netClosed,
                   inProgress, removed, owed>>
    /\ ev' = NoEv

\* c.conn.WriteMessage(websocket.CloseMessage, cm); on failure the net
\* connection is closed. Either way `break` leaves the select statement, not
\* the for loop: the worker selects again.
WriterCloseFrame ==
    /\ wpc = "closeFrame"
    /\ \/ /\ ~netClosed
          /\ UNCHANGED netClosed
       \/ netClosed' = TRUE
    /\ closeHandled' = TRUE
    /\ wpc' = "select"
    /\ ev' = WriteEv("writeLoop", "CloseFrame")
    /\ UNCHANGED <<callVars, respCh, readVars, closeCh, wmsg, inProgress, removed, owed>>

\* c.closeCh <- true; return; the deferred s.Remove(c.id) runs.
WriterRaise ==
    /\ wpc = "raise"
    /\ Len(closeCh) < CloseChCap
    /\ closeCh' = Append(closeCh, TRUE)
    /\ removed' = removed + 1
    /\ wpc' = "done"
    /\ UNCHANGED <<callVars, respCh, readVars, wmsg, closeHandled, netClosed,
                   inProgress, owed>>
    /\ ev' = NoEv

----------------------------------------------------------------------------
CallStep(c) ==
    \/ CallStore(c)
    \/ CallAdd(c)
    \/ CallRecv(c)
    \/ CallTimeout(c)
    \/ CallCleanup(c)

ReaderStep ==
    \/ Deliver
    \/ ReaderRaise

WriterStep ==
    \/ WriterNextWriter
    \/ WriterWrite
    \/ WriterClose
    \/ WriterPong
    \/ WriterRecvClose
    \/ WriterCloseFrame
    \/ WriterRaise

Next ==
    \/ \E c \in Calls : CallReject(c)
    \/ \E c \in Calls : CallMarshalErr(c)
    \/ \E c \in Calls : CallCheck(c)
    \/ \E c \in Calls : CallStore(c)
    \/ \E c \in Calls : CallAdd(c)
    \/ \E c \in Calls : CallSend(c)
    \/ \E c \in Calls : CallRecv(c)
    \/ \E c \in Calls : CallTimeout(c)
    \/ \E c \in Calls : CallCleanup(c)
    \/ ReadError
    \/ ReadFrame
    \/ ReadPing
    \/ PingHandler
    \/ Deliver
    \/ ReaderSend
    \/ ReaderRaise
    \/ WriterNextWriter
    \/ WriterWrite
    \/ WriterClose
    \/ WriterPong
    \/ WriterRecvClose
    \/ WriterCloseFrame
    \/ WriterRaise

Spec == Init /\ [][Next]_vars

\* Every goroutine that can take a step eventually takes one; a sender
\* blocked on an unbuffered channel is served when the receiver selects
\* often enough. Invoking Call and the peer's frames are not forced.
FairSpec ==
    /\ Spec
    /\ \A c \in Calls : WF_vars(CallStep(c))
    /\ \A c \in Calls : SF_vars(CallSend(c))
    /\ WF_vars(ReaderStep)
    /\ SF_vars(ReaderSend)
    /\ SF_vars(PingHandler)
    /\ WF_vars(WriterStep)

----------------------------------------------------------------------------
\* The second revision of the file (src/client.go lines 252-497). It differs
\* from the first in readLoop's loop body and in writeLoop's messageOut
\* case; makeClient, run, Call and the other cases are the same code.

\* uuid.NewString() in readLoop: an id no request and no Call carries.
NewUuid == 200

\* The loop body of the second revision: a nil message and a missing
\* handler raise the close signal, and the response gets a fresh id.
Dispatch2(f) ==
    LET r == ToMessage(f) IN
    IF r.err \/ r.nil THEN
        \* decode failure, or nil message
        /\ rpc' = "raise"
        /\ UNCHANGED <<msg, rch, owed>>
    ELSE IF r.m.type = Resp THEN
        \* c.pendingCalls.Load(message.Id)
        IF r.m.id \in DOMAIN pendingCalls
        THEN /\ rch' = pendingCalls[r.m.id]
             /\ msg' = f
             /\ rpc' = "deliver"
             /\ UNCHANGED owed
        ELSE /\ rpc' = "read"
             /\ UNCHANGED <<msg, rch, owed>>
    ELSE IF ~getHandler(r.m.action) THEN
        \* h == nil
        /\ rpc' = "raise"
        /\ UNCHANGED <<msg, rch, owed>>
    ELSE
        \* h(c, message) returns nil, or resp.ToBytes() fails
        \/ /\ rpc' = "raise"
           /\ UNCHANGED <<msg, rch, owed>>
        \* Id: uuid.NewString(), Action: message.Action
        \/ /\ msg' = ToBytes(Message(NewUuid, Resp, r.m.action))
           /\ rpc' = "sendOut"
           /\ owed' = Append(owed, NewUuid)
           /\ UNCHANGED rch

ReadFrame2 ==
    /\ rpc = "read"
    /\ ~netClosed
    /\ \E f \in PeerFrames : Dispatch2(f) /\ ev' = ReadEv(f)
    /\ UNCHANGED <<callVars, respCh, closeCh, writeVars, removed>>

\* _, err = writer.Write(msg); the message writer is not closed, and the
\* worker selects again.
WriterWrite2 ==
    /\ wpc = "write"
    /\ \/ /\ ~netClosed
          /\ wpc' = "select"
       \/ wpc' = "raise"
    /\ wmsg' = NoFrame
    /\ owed' = IF IsResp(wmsg) THEN Tail(owed) ELSE owed
    /\ ev' = WriteEv("writeLoop", "Write")
    /\ UNCHANGED <<callVars, respCh, readVars, closeCh, closeHandled, netClosed,
                   inProgress, removed>>

Next2 ==
    \/ \E c \in Calls : CallReject(c)
    \/ \E c \in Calls : CallMarshalErr(c)
    \/ \E c \in Calls : CallCheck(c)
    \/ \E c \in Calls : CallStore(c)
    \/ \E c \in Calls : CallAdd(c)
    \/ \E c \in Calls : CallSend(c)
    \/ \E c \in Calls : CallRecv(c)
    \/ \E c \in Calls : CallTimeout(c)
    \/ \E c \in Calls : CallCleanup(c)
    \/ ReadError
    \/ ReadFrame2
    \/ ReadPing
    \/ PingHandler
    \/ Deliver
    \/ ReaderSend
    \/ ReaderRaise
    \/ WriterNextWriter
    \/ WriterWrite2
    \/ WriterPong
    \/ WriterRecvClose
    \/ WriterCloseFrame
    \/ WriterRaise

SpecRev2 == Init /\ [][Next2]_vars

----------------------------------------------------------------------------
\* Claims

InCall(c) == pc[c] \notin {"idle", "done"}
Fatal == rpc \in {"raise", "done"} \/ wpc \in {"raise", "done"}

\* C1: in every reachable state the pending-call counter and the number of
\* entries of pendingCalls are at most maxPendingCalls.
C1_PendingBounded ==
    /\ pendingCnt <= maxPendingCalls
    /\ Cardinality(DOMAIN pendingCalls) <= maxPendingCalls

\* C2: a Call that enters while the counter is at maxPendingCalls returns
\* the capacity error in that very step, and the step changes neither the
\* table, nor the counter, nor any response slot, and hands nothing to the
\* Write Worker.
C2_RejectMutatesNothing ==
    [][\A c \in Calls :
         (pc[c] = "idle" /\ pendingCnt >= maxPendingCalls /\ pc'[c] # "idle")
         => /\ pc'[c] = "done"
            /\ ev' = ReturnEv(c, ErrRet(ErrCapacity))
            /\ UNCHANGED <<pendingCalls, pendingCnt, respCh, wpc, wmsg>>]_vars

\* A Call has just been rejected while another one holds the only slot.
C2_Witness ==
    /\ ev.op = "return"
    /\ ev.val.err = ErrCapacity
    /\ pendingCnt >= maxPendingCalls
    /\ \E c \in Calls : c \in DOMAIN pendingCalls /\ pc[c] = "wait"

\* C3: a Call that returns a Response returns the Response that carries the
\* id of its own Request.
C3_ResponseMatchesRequest ==
    (ev.op = "return" /\ ev.val.err = "nil")
    => (ev.val.resp.id = ev.c /\ ev.val.resp.type = Resp)

\* Two Calls were registered at once and the peer answered the later one
\* first: Call 1 returns its own Response after Call 2 already holds its own.
C3_Witness ==
    /\ ev = ReturnEv(1, OkRet(Message(1, Resp, "r")))
    /\ pc[2] = "cleanup"
    /\ outcome[2] = OkRet(Message(2, Resp, "r"))

\* C4: once a Call has returned the timeout error its id is not in
\* pendingCalls, and a Response for that id read afterwards is dropped: the
\* step delivers nothing, registers nothing, raises no close signal, and
\* leaves the Read Worker at its next read.
C4_LateResponseDropped ==
    /\ [](timedOut \cap DOMAIN pendingCalls = {})
    /\ [][(ev' # ev /\ ev'.op = "read" /\ IsResp(ev'.f) /\ ev'.f.id \in timedOut)
          => /\ rpc' = "read"
             /\ UNCHANGED <<pendingCalls, pendingCnt, respCh, closeCh, pc, outcome>>]_vars

\* The Read Worker has just read a Response for a timed-out Call and is back
\* at its read.
C4_Witness ==
    /\ ev.op = "read"
    /\ IsResp(ev.f)
    /\ ev.f.id \in timedOut
    /\ rpc = "read"
    /\ closeCh = <<>>

\* C5: a slot is in the table exactly from its Store to the deferred cleanup
\* and is counted exactly from Add(1) to the deferred cleanup, whichever way
\* the Call leaves; so with no Call in progress the table is empty and the
\* counter is 0.
C5_CleanupExactlyOnce ==
    /\ DOMAIN pendingCalls = {c \in Calls : pc[c] \in {"add", "send", "wait", "cleanup"}}
    /\ pendingCnt = Cardinality({c \in Calls : pc[c] \in {"send", "wait", "cleanup"}})
    /\ (\A c \in Calls : ~InCall(c)) => (DOMAIN pendingCalls = {} /\ pendingCnt = 0)

\* Every Call has returned, one by timeout and the last one through the
\* request-encode error.
C5_Witness ==
    /\ \A c \in Calls : pc[c] = "done"
    /\ timedOut # {}
    /\ ev.op = "return"
    /\ ev.val.err = "encode"

\* C6: every Call that passed the capacity check eventually returns.
C6_CallReturns == \A c \in Calls : (pc[c] = "store") ~> (pc[c] = "done")

\* C7: s.Remove(c.id) runs exactly once over the life of the connection:
\* never a second time, and once when both workers have terminated.
C7_RemoveExactlyOnce ==
    /\ removed <= 1
    /\ (rpc = "done" /\ wpc = "done") => removed = 1

\* C8: once the Write Worker has handled the close signal, no step calls the
\* transport's write path again.
C8_NoWriteAfterClose == [][closeHandled => ev'.op \notin WriteOps]_vars

\* C9: after a connection-fatal error both workers eventually terminate and
\* the connection is deregistered.
C9_WorkersTerminate == Fatal ~> (rpc = "done" /\ wpc = "done" /\ removed >= 1)

\* C10: every call of the transport's write path is made by the Write
\* Worker, and no call is made while another goroutine holds an open
\* message writer.
C10_SingleWriter ==
    /\ inProgress \subseteq {"writeLoop"}
    /\ ev.op \in WriteOps => (ev.by = "writeLoop" /\ inProgress \ {ev.by} = {})

\* The Write Worker has just written a pong while a Call and the Read Worker
\* both wait to hand it a message.
C10_Witness ==
    /\ ev = WriteEv("writeLoop", "Pong")
    /\ rpc = "sendOut"
    /\ \E c \in Calls : pc[c] = "send"

IsReq(f) == f.kind = "json" /\ f.type = Req

\* C11: every pong is written by the Write Worker for a ping the ping
\* handler handed to it, while no message writer is open, and every ping
\* returned by the transport is eventually followed by the Write Worker's
\* pong write.
C11_PingAnswered ==
    /\ [](ev.op = "Pong" => (ev.by = "writeLoop" /\ inProgress = {}))
    /\ [][ev'.op = "Pong" => wpc = "pong"]_vars
    /\ (rpc = "ping") ~> (ev.op = "Pong")

\* C12: the responses the Read Worker builds reach the Write Worker and the
\* transport in the order their requests were read: the response handed
\* over on messageOut, and the response passed to writer.Write, is each time
\* the oldest response built and not yet written, whatever requests Call
\* invocations put on messageOut in between.
C12_ResponsesInOrder ==
    [][/\ (rpc = "sendOut" /\ wpc = "select" /\ wpc' = "nextWriter" /\ rpc' = "read")
          => (owed # <<>> /\ IsResp(wmsg') /\ wmsg'.id = Head(owed))
       /\ (wpc = "write" /\ wpc' # "write" /\ IsResp(wmsg))
          => (owed # <<>> /\ wmsg.id = Head(owed))]_vars

\* Request A was read and answered, its response is about to be written;
\* request B was read next and its response waits on messageOut next to a
\* Call's request.
C12_Witness ==
    /\ wpc = "write"
    /\ wmsg = ToBytes(Message(101, Resp, "A"))
    /\ rpc = "sendOut"
    /\ msg = ToBytes(Message(102, Resp, "B"))
    /\ owed = <<101, 102>>
    /\ \E c \in Calls : pc[c] = "send"

\* C13: the response the Read Worker builds for a request whose handler
\* returned a payload has type Response and the id and the action of that
\* request.
C13_ResponseEchoesRequest ==
    (ev.op = "read" /\ IsReq(ev.f) /\ rpc = "sendOut")
    => msg = ToBytes(Message(ev.f.id, Resp, ev.f.action))

\* C14: the step in which the Write Worker handles the close signal (the
\* close frame write, or the forced close of the transport) ends the
\* worker: it is done and its deferred deregistration has run.
C14_CloseCaseTerminates ==
    [][ev'.op = "CloseFrame" => (wpc' = "done" /\ removed' = removed + 1)]_vars

\* C15: a worker that is about to raise the close signal always finds room
\* in closeCh, so its send completes; and once a close frame was written no
\* other one is.
C15_RaiseIdempotent ==
    /\ []((rpc = "raise" \/ wpc = "raise") => Len(closeCh) < CloseChCap)
    /\ [][closeHandled => ev'.op # "CloseFrame"]_vars

ReadOrDecodeFailed ==
    /\ rpc = "raise"
    /\ ev.op = "readError" \/ (ev.op = "read" /\ ev.f.kind = "bad")

\* C16: after ReadMessage failed or a frame failed to decode, the Read
\* Worker reads no further frame, and it eventually has raised the close
\* signal and terminated.
C16_ReadFailureStops ==
    /\ [][(rpc \in {"raise", "done"})
          => (rpc' \in {"raise", "done"} /\ ev'.op # "read")]_vars
    /\ ReadOrDecodeFailed ~> (rpc = "done")

\* C17: right after the Read Worker read a request whose action has no
\* handler it is either about to raise the close signal or about to enqueue
\* a response for that request.
C17_NoHandlerPolicy ==
    (ev.op = "read" /\ IsReq(ev.f) /\ ~getHandler(ev.f.action))
    => \/ rpc = "raise"
       \/ rpc = "sendOut" /\ IsResp(msg) /\ msg.id = ev.f.id

HandlerFailed ==
    /\ rpc = "raise"
    /\ ev.op = "read" /\ IsReq(ev.f) /\ getHandler(ev.f.action)

\* C18: when the handler of a request returned nil the Read Worker holds no
\* response to enqueue, hands nothing to the Write Worker afterwards, and
\* eventually has raised the close signal and terminated.
C18_HandlerFailureStops ==
    /\ [](HandlerFailed => msg = NoFrame)
    /\ [][(rpc \in {"raise", "done"})
          => /\ rpc' \in {"raise", "done"}
             /\ msg' = NoFrame
             /\ Len(owed') <= Len(owed)
             /\ IsResp(wmsg') => wmsg' = wmsg]_vars
    /\ HandlerFailed ~> (rpc = "done")

\* C19: the Read Worker never waits to deliver into a full slot whose Call
\* has returned the timeout error, which nobody will ever empty.
C19_DeliveryCompletes ==
    ~(rpc = "deliver" /\ Len(respCh[rch]) = RespChCap /\ rch \in timedOut)

\* C20: from the moment a Call offers its request on messageOut until it
\* leaves its select, its slot is registered, and a response for its id
\* read in that time is taken to its slot.
C20_RegisteredBeforeSend ==
    /\ \A c \in Calls : pc[c] \in {"send", "wait"} => c \in DOMAIN pendingCalls
    /\ (ev.op = "read" /\ IsResp(ev.f) /\ pc[ev.f.id] \in {"send", "wait"})
       => (rpc = "deliver" /\ rch = pendingCalls[ev.f.id] /\ rch = ev.f.id)

\* The request of a Call was written (the Write Worker is back at its
\* select), the Call is waiting, and the response for it has just been read.
C20_Witness ==
    /\ ev.op = "read"
    /\ IsResp(ev.f)
    /\ pc[ev.f.id] = "wait"
    /\ wpc = "select"
    /\ rpc = "deliver"
    /\ rch = ev.f.id
====
